---------------------------- MODULE Spec2Model ----------------------------
(***************************************************************************)
(* Model of src/user/username.rs: validate_username and the lazily         *)
(* initialised, process-wide compiled pattern EMAIL_USER_RE.               *)
(*                                                                         *)
(* A string is a sequence of Unicode scalar values (code points, as        *)
(* naturals).  A call is a small state machine, one step per statement of  *)
(* the function; the dereference of EMAIL_USER_RE goes through the Once    *)
(* that lazy_static! expands to.                                           *)
(***************************************************************************)
EXTENDS Naturals, Sequences, FiniteSets

(***************************************************************************)
(* Bounds of the model.                                                    *)
(***************************************************************************)
\* Short inputs: every string over Alphabet of at most this many characters.
MaxShortLen == 2
\* Long inputs: runs of MAX_LOCAL_LEN - LongMargin .. MAX_LOCAL_LEN + LongMargin
\* equal characters, followed by at most one more character.
LongMargin == 1
\* Concurrent callers of ConcSpec.
NumThreads == 2

(***************************************************************************)
(* Program constants.                                                      *)
(***************************************************************************)
\* username.rs:29   if val.length() > 64
MAX_LOCAL_LEN == 64

(***************************************************************************)
(* Characters.                                                             *)
(***************************************************************************)
LF == 10
KELVIN_SIGN == 8490
LONG_S == 383

\* The characters inputs are drawn from: newline, space, '"', '-', '0', '@',
\* 'K', 'a', 'k', 's', e-acute (2 bytes), long s (2 bytes), Kelvin sign
\* (3 bytes), an emoji (4 bytes).
Alphabet == {LF, 32, 34, 45, 48, 64, 75, 97, 107, 115, 233, LONG_S, KELVIN_SIGN, 128512}

\* The characters long runs are made of.
FillChars == {97, 64, 233, KELVIN_SIGN}

\* The set the specification documents: [A-Za-z0-9.!#$%&'*+/=?^_`{|}~-]
AsciiLetters == (65..90) \cup (97..122)
AsciiDigits == 48..57
AllowedPunct == {46, 33, 35, 36, 37, 38, 39, 42, 43, 47, 61, 63, 94, 95, 96, 123, 124, 125, 126, 45}
DocumentedSet == AsciiLetters \cup AsciiDigits \cup AllowedPunct

\* Number of bytes of the UTF-8 encoding of one scalar value.
Utf8Width(c) == IF c < 128 THEN 1 ELSE IF c < 2048 THEN 2 ELSE IF c < 65536 THEN 3 ELSE 4

\* str::len(): the length of the string in bytes, the sum of the widths of
\* its characters (counted width by width).
Utf8Len(s) ==
    LET Wider(w) == Cardinality({i \in 1..Len(s) : Utf8Width(s[i]) > w})
    IN  Len(s) + Wider(1) + Wider(2) + Wider(3)

\* str::chars().count(): the number of scalar values.
CharCount(s) == Len(s)

Repeat(c, n) == [i \in 1..n |-> c]

(***************************************************************************)
(* The regex crate, as far as the pattern of username.rs:12 uses it.       *)
(***************************************************************************)
Tok(t, lo, hi) == [t |-> t, lo |-> lo, hi |-> hi]

\* The items of the character class of username.rs:12, in code point order
\* after the two ranges: a-z 0-9 and the twenty punctuation characters.
ClassItems ==
    << Tok("range", 97, 122), Tok("range", 48, 57) >>
    \o [i \in 1..Cardinality(AllowedPunct) |->
          LET c == CHOOSE c \in AllowedPunct :
                      Cardinality({d \in AllowedPunct : d < c}) = i - 1
          IN  Tok("range", c, c)]

\* The pattern with the closing bracket of its class left out.
PATTERN_Unclosed ==
    << Tok("assert_start", 0, 0), Tok("flag_i", 0, 0), Tok("class_open", 0, 0) >>
    \o ClassItems
    \o << Tok("plus", 0, 0), Tok("assert_end", 0, 0) >>

\* r"^(?i)[a-z0-9.!#$%&'*+/=?^_`{|}~-]+\z" as its tokens.
PATTERN ==
    << Tok("assert_start", 0, 0), Tok("flag_i", 0, 0), Tok("class_open", 0, 0) >>
    \o ClassItems
    \o << Tok("class_close", 0, 0), Tok("plus", 0, 0), Tok("assert_end", 0, 0) >>

\* Unicode simple case folding, the equivalence (?i) uses when the u flag is
\* on (the default of regex::Regex): the characters that fold with c, for
\* the ASCII characters and the two other characters that fold to an ASCII
\* letter (U+212A with k, U+017F with s).
SimpleFoldOrbit(c) ==
    LET lower == IF c \in 65..90 THEN c + 32 ELSE c
    IN  IF c \in AsciiLetters
        THEN {lower, lower - 32}
             \cup (IF lower = 107 THEN {KELVIN_SIGN} ELSE {})
             \cup (IF lower = 115 THEN {LONG_S} ELSE {})
        ELSE IF c = KELVIN_SIGN THEN {75, 107, KELVIN_SIGN}
        ELSE IF c = LONG_S THEN {83, 115, LONG_S}
        ELSE {c}

FoldClosure(S) == UNION {SimpleFoldOrbit(c) : c \in S}

Positions(p, kind) == {i \in 1..Len(p) : p[i].t = kind}

\* Regex::new: Err on a character class that is not closed (or closed but
\* never opened) and on a repetition with nothing to repeat; otherwise the
\* compiled program: the class (case-folded under (?i)), the anchors, the
\* least number of repetitions.
RegexNew(p) ==
    LET opens  == Positions(p, "class_open")
        closes == Positions(p, "class_close")
        plus   == Positions(p, "plus")
        wellFormed ==
            /\ Cardinality(opens) = 1
            /\ Cardinality(closes) = 1
            /\ \A o \in opens, c \in closes : o < c
            /\ \A q \in plus : q - 1 \in closes
        o == CHOOSE x \in opens : TRUE
        c == CHOOSE x \in closes : TRUE
        written == UNION {p[i].lo .. p[i].hi : i \in (o + 1)..(c - 1)}
        folded == \E i \in Positions(p, "flag_i") : i < o
    IN  IF ~wellFormed
        THEN [ok |-> FALSE]
        ELSE [ok |-> TRUE,
              class |-> IF folded THEN FoldClosure(written) ELSE written,
              anchoredStart |-> \E i \in Positions(p, "assert_start") : i < o,
              anchoredEnd |-> \E i \in Positions(p, "assert_end") : i > c,
              minRep |-> IF plus # {} THEN 1 ELSE 0]

\* The value the initialiser of EMAIL_USER_RE computes, before unwrap.
Compiled == RegexNew(PATTERN)

\* Regex::is_match: some substring s[i..j] is at least minRep characters of
\* the class, starting at the start of the text when the pattern is anchored
\* there (^ without the m flag) and ending at its very end when it is
\* anchored there (\z).
IsMatch(re, s) ==
    LET n == Len(s)
        starts == IF re.anchoredStart THEN {1} ELSE 1..(n + 1)
        ends == IF re.anchoredEnd THEN {n} ELSE 0..n
    IN  \E i \in starts, j \in ends :
            /\ j + 1 >= i
            /\ j + 1 - i >= re.minRep
            /\ \A k \in i..j : s[k] \in re.class

(***************************************************************************)
(* validate_username, statement by statement.                              *)
(***************************************************************************)
HasLenImpls == {"chars", "bytes"}

VARIABLE hasLenCow   \* what the linked validator's HasLen for Cow<str> counts

\* What a caller passes: T: Into<Cow<'a, str>>.
ArgKinds == {"str", "String", "CowBorrowed", "CowOwned"}

\* val.into(): a &str or a Cow::Borrowed becomes Cow::Borrowed, a String or
\* a Cow::Owned becomes Cow::Owned; the characters are untouched.
Into(arg) ==
    [variant |-> IF arg.kind \in {"str", "CowBorrowed"} THEN "Borrowed" ELSE "Owned",
     s |-> arg.s]

\* Deref of Cow<str> to str.
AsStr(val) == val.s

\* val.is_empty()
IsEmpty(val) == Len(AsStr(val)) = 0

\* A length that counts bytes for an owned string and characters for a
\* borrowed one.
LengthByVariant(val) ==
    IF val.variant = "Owned" THEN Utf8Len(AsStr(val)) ELSE CharCount(AsStr(val))

\* val.length(): HasLen::length of the validator crate on Cow<str>.  The
\* crate is not part of this repository and its releases are not pinned
\* here: the implementation for Cow<str> is either chars().count() (as for
\* &str and String) or len() (bytes, as for Vec<T>).  hasLenCow is the one
\* the build links.
Length(val) ==
    IF hasLenCow = "chars" THEN CharCount(AsStr(val)) ELSE Utf8Len(AsStr(val))

\* Variants of the comparison of line 29.
TooLongInclusive(val) == Length(val) >= MAX_LOCAL_LEN
TooLongOffByOne(val) == Length(val) > MAX_LOCAL_LEN + 1

\* val.length() > 64
TooLong(val) == Length(val) > MAX_LOCAL_LEN

\* The whole function on one argument, given the compiled pattern.
ValidateUsername(arg) ==
    LET val == Into(arg)
    IN  IF IsEmpty(val) THEN FALSE
        ELSE IF TooLong(val) THEN FALSE
        ELSE IF ~IsMatch(Compiled, AsStr(val)) THEN FALSE
        ELSE TRUE

(***************************************************************************)
(* Inputs.                                                                 *)
(***************************************************************************)
StringsUpTo(n) == UNION {[1..k -> Alphabet] : k \in 0..n}

LongStrings ==
    {Repeat(c, n) \o tail :
        c \in FillChars,
        n \in (MAX_LOCAL_LEN - LongMargin)..(MAX_LOCAL_LEN + LongMargin),
        tail \in StringsUpTo(1)}

\* Every ASCII character alone, so that each character of the class and
\* each ASCII character outside it is tried.
AsciiProbes == {<<c>> : c \in 0..127}

Strings == StringsUpTo(MaxShortLen) \cup LongStrings \cup AsciiProbes

Inputs == [kind : ArgKinds, s : Strings]

\* The inputs of the concurrent callers: the empty string, an accepted and a
\* rejected one, one that is too long, and one of 64 three-byte characters.
ConcStrings ==
    {<<>>, <<97>>, <<97, 64>>, Repeat(97, MAX_LOCAL_LEN + 1),
     Repeat(KELVIN_SIGN, MAX_LOCAL_LEN)}

ConcInputs == [kind : {"CowBorrowed", "CowOwned"}, s : ConcStrings]

Threads == 1..NumThreads
MainThread == 1

(***************************************************************************)
(* State.                                                                  *)
(***************************************************************************)
VARIABLES
    pc,             \* per thread: where its call is
    arg,            \* per thread: the argument of its call
    val,            \* per thread: the Cow after line 20
    result,         \* per thread: <<>> or <<b>>, the value returned
    ret,            \* per thread: the return statement taken
    once,           \* state of the Once of EMAIL_USER_RE
    cell,           \* the lazy cell: <<>> or <<compiled regex>>
    constructions,  \* number of times the initialiser stored a regex
    ranInit         \* per thread: its present call ran the initialiser

vars == <<pc, arg, val, result, ret, once, cell, constructions, ranInit, hasLenCow>>

NoArg == [kind |-> "str", s |-> <<>>]

Init ==
    /\ pc = [t \in Threads |-> "idle"]
    /\ arg = [t \in Threads |-> NoArg]
    /\ val = [t \in Threads |-> Into(NoArg)]
    /\ result = [t \in Threads |-> <<>>]
    /\ ret = [t \in Threads |-> "none"]
    /\ once = "INCOMPLETE"
    /\ cell = <<>>
    /\ constructions = 0
    /\ ranInit = [t \in Threads |-> FALSE]
    /\ hasLenCow \in HasLenImpls

Goto(t, label) == pc' = [pc EXCEPT ![t] = label]

ReturnWith(t, b, site) ==
    /\ result' = [result EXCEPT ![t] = <<b>>]
    /\ ret' = [ret EXCEPT ![t] = site]
    /\ Goto(t, "done")

\* Lines 16-20: the call, with any argument of S, and let val = val.into().
Call(t, S) ==
    /\ pc[t] = "idle"
    /\ \E a \in S :
          /\ arg' = [arg EXCEPT ![t] = a]
          /\ val' = [val EXCEPT ![t] = Into(a)]
    /\ Goto(t, "is_empty")
    /\ UNCHANGED <<result, ret, once, cell, constructions, ranInit>>
    /\ UNCHANGED hasLenCow

\* An empty check that accepts.
CheckEmptyReturnsTrue(t) ==
    /\ pc[t] = "is_empty"
    /\ IF IsEmpty(val[t])
       THEN ReturnWith(t, TRUE, "empty")
       ELSE Goto(t, "length") /\ UNCHANGED <<result, ret>>
    /\ UNCHANGED <<arg, val, once, cell, constructions, ranInit>>
    /\ UNCHANGED hasLenCow

\* Lines 21-23.
CheckEmpty(t) ==
    /\ pc[t] = "is_empty"
    /\ IF IsEmpty(val[t])
       THEN ReturnWith(t, FALSE, "empty")
       ELSE Goto(t, "length") /\ UNCHANGED <<result, ret>>
    /\ UNCHANGED <<arg, val, once, cell, constructions, ranInit>>
    /\ UNCHANGED hasLenCow

\* The length check left out before the match.
CheckLengthSkipped(t) ==
    /\ pc[t] = "length"
    /\ Goto(t, "deref")
    /\ UNCHANGED <<arg, val, result, ret, once, cell, constructions, ranInit>>
    /\ UNCHANGED hasLenCow

\* Lines 29-31.
CheckLength(t) ==
    /\ pc[t] = "length"
    /\ IF TooLong(val[t])
       THEN ReturnWith(t, FALSE, "length")
       ELSE Goto(t, "deref") /\ UNCHANGED <<result, ret>>
    /\ UNCHANGED <<arg, val, once, cell, constructions, ranInit>>
    /\ UNCHANGED hasLenCow

\* A lazy initialisation with no guard: whoever finds it incomplete runs it.
OnceEnterUnguarded(t) ==
    /\ pc[t] = "deref"
    /\ IF once = "COMPLETE"
       THEN Goto(t, "is_match") /\ UNCHANGED once
       ELSE Goto(t, "init") /\ once' = "RUNNING"
    /\ UNCHANGED <<arg, val, result, ret, cell, constructions, ranInit>>
    /\ UNCHANGED hasLenCow

\* Line 33, the dereference of EMAIL_USER_RE: Once::call_once.  A completed
\* Once is passed; an incomplete one is taken by this thread, which runs
\* the initialiser; a running one makes the caller wait; a poisoned one
\* panics.
OnceEnter(t) ==
    /\ pc[t] = "deref"
    /\ once # "RUNNING"
    /\ CASE once = "COMPLETE" -> Goto(t, "is_match") /\ UNCHANGED once
         [] once = "INCOMPLETE" -> Goto(t, "init") /\ once' = "RUNNING"
         [] OTHER -> Goto(t, "panicked") /\ UNCHANGED once
    /\ UNCHANGED <<arg, val, result, ret, cell, constructions, ranInit>>
    /\ UNCHANGED hasLenCow

\* Line 12, the initialiser: Regex::new(...).unwrap(), stored in the cell.
\* An Err panics in unwrap and poisons the Once.
LazyInit(t) ==
    /\ pc[t] = "init"
    /\ LET r == Compiled
       IN  IF r.ok
           THEN /\ cell' = <<r>>
                /\ constructions' = constructions + 1
                /\ ranInit' = [ranInit EXCEPT ![t] = TRUE]
                /\ Goto(t, "publish")
                /\ UNCHANGED once
           ELSE /\ once' = "POISONED"
                /\ Goto(t, "panicked")
                /\ UNCHANGED <<cell, constructions, ranInit>>
    /\ UNCHANGED <<arg, val, result, ret>>
    /\ UNCHANGED hasLenCow

\* The end of call_once: the Once is marked complete and waiters are woken.
OncePublish(t) ==
    /\ pc[t] = "publish"
    /\ once' = "COMPLETE"
    /\ Goto(t, "is_match")
    /\ UNCHANGED <<arg, val, result, ret, cell, constructions, ranInit>>
    /\ UNCHANGED hasLenCow

\* Lines 33-37: is_match on the stored regex, and the two returns.  A read of
\* a cell nothing was stored in is a read of uninitialised memory: any
\* outcome.
MatchAndReturn(t) ==
    /\ pc[t] = "is_match"
    /\ \E m \in (IF cell = <<>> THEN BOOLEAN ELSE {IsMatch(cell[1], AsStr(val[t]))}) :
          IF ~m
          THEN ReturnWith(t, FALSE, "regex")
          ELSE ReturnWith(t, TRUE, "accept")
    /\ UNCHANGED <<arg, val, once, cell, constructions, ranInit>>
    /\ UNCHANGED hasLenCow

\* The caller takes the result; the thread may call again.
Return(t) ==
    /\ pc[t] = "done"
    /\ Goto(t, "idle")
    /\ arg' = [arg EXCEPT ![t] = NoArg]
    /\ val' = [val EXCEPT ![t] = Into(NoArg)]
    /\ result' = [result EXCEPT ![t] = <<>>]
    /\ ret' = [ret EXCEPT ![t] = "none"]
    /\ ranInit' = [ranInit EXCEPT ![t] = FALSE]
    /\ UNCHANGED <<once, cell, constructions>>
    /\ UNCHANGED hasLenCow

Step(t) ==
    \/ CheckEmpty(t)
    \/ CheckLength(t)
    \/ OnceEnter(t)
    \/ LazyInit(t)
    \/ OncePublish(t)
    \/ MatchAndReturn(t)
    \/ Return(t)

\* One caller, calling again and again with any input.
Next ==
    \/ Call(MainThread, Inputs)
    \/ Step(MainThread)

Spec == Init /\ [][Next]_vars

\* NumThreads callers, interleaved at every statement.
ConcNext ==
    \E t \in Threads :
        \/ Call(t, ConcInputs)
        \/ Step(t)

ConcSpec == Init /\ [][ConcNext]_vars

(***************************************************************************)
(* Vocabulary of the properties.                                           *)
(***************************************************************************)
Done(t) == pc[t] = "done"

AllDocumented(s) == \A i \in 1..Len(s) : s[i] \in DocumentedSet

HasForbiddenChar(s) == \E i \in 1..Len(s) : s[i] \notin DocumentedSet

EndsWithNewline(s) == Len(s) > 0 /\ s[Len(s)] = LF

\* The other-case ASCII counterpart of an ASCII letter; any other character
\* is left alone.
SwapChar(c) ==
    IF c \in 65..90 THEN c + 32 ELSE IF c \in 97..122 THEN c - 32 ELSE c

SwapAt(s, P) == [i \in 1..Len(s) |-> IF i \in P THEN SwapChar(s[i]) ELSE s[i]]

\* The sets of positions whose case is swapped: every set of positions of a
\* short string; of a long one, all positions at once and each one alone.
SwapSets(s) ==
    IF Len(s) <= MaxShortLen + 1
    THEN SUBSET (1..Len(s))
    ELSE {1..Len(s)} \cup {{i} : i \in 1..Len(s)}

\* The transitions of one call, in the order of the statements.
Order ==
    { <<"idle", "is_empty">>, <<"is_empty", "length">>, <<"is_empty", "done">>,
      <<"length", "deref">>, <<"length", "done">>, <<"deref", "is_match">>,
      <<"deref", "init">>, <<"init", "publish">>, <<"publish", "is_match">>,
      <<"is_match", "done">>, <<"done", "idle">> }

(***************************************************************************)
(* C1.  Every input with a character outside the documented set, or ending *)
(* with a newline, is rejected.  Stated as the claim; the code accepts the *)
(* Kelvin sign and the long s, which (?i) folds to k and s.                *)
(***************************************************************************)
C1_ForbiddenCharRejected ==
    \A t \in Threads :
        (Done(t) /\ (HasForbiddenChar(arg[t].s) \/ EndsWithNewline(arg[t].s)))
            => result[t] = <<FALSE>>

(***************************************************************************)
(* C2.  Every input of 1 to 64 characters, all of the documented set, is   *)
(* accepted.                                                               *)
(***************************************************************************)
C2_AllowedAccepted ==
    \A t \in Threads :
        (Done(t) /\ Len(arg[t].s) \in 1..MAX_LOCAL_LEN /\ AllDocumented(arg[t].s))
            => result[t] = <<TRUE>>

C2_Witness ==
    /\ Done(MainThread)
    /\ Len(arg[MainThread].s) = MAX_LOCAL_LEN
    /\ AllDocumented(arg[MainThread].s)
    /\ result[MainThread] = <<TRUE>>

(***************************************************************************)
(* C3.  Every input of more than 64 scalar values is rejected, whatever    *)
(* its characters.                                                         *)
(***************************************************************************)
C3_OverLengthRejected ==
    \A t \in Threads :
        (Done(t) /\ CharCount(arg[t].s) > MAX_LOCAL_LEN) => result[t] = <<FALSE>>

C3_Witness ==
    /\ Done(MainThread)
    /\ CharCount(arg[MainThread].s) = MAX_LOCAL_LEN + 1
    /\ AllDocumented(arg[MainThread].s)
    /\ result[MainThread] = <<FALSE>>

(***************************************************************************)
(* C4.  The empty string is rejected.                                      *)
(***************************************************************************)
C4_EmptyRejected ==
    \A t \in Threads : (Done(t) /\ arg[t].s = <<>>) => result[t] = <<FALSE>>

C4_Witness ==
    /\ Done(MainThread)
    /\ arg[MainThread].s = <<>>
    /\ result[MainThread] = <<FALSE>>

(***************************************************************************)
(* C5.  The function is total: no call panics, the Once is never poisoned, *)
(* a call in flight always has a next step, and a finished call has        *)
(* returned exactly one boolean; the call that constructs the pattern      *)
(* included.                                                               *)
(***************************************************************************)
C5_Total ==
    /\ once # "POISONED"
    /\ \A t \in Threads :
        /\ pc[t] # "panicked"
        /\ Done(t) => result[t] \in {<<TRUE>>, <<FALSE>>}
        /\ ~Done(t) => result[t] = <<>>
    /\ pc[MainThread] \notin {"idle", "done"} => ENABLED Step(MainThread)

C5_Witness ==
    /\ Done(MainThread)
    /\ ranInit[MainThread]
    /\ result[MainThread] \in {<<TRUE>>, <<FALSE>>}

(***************************************************************************)
(* C6.  Under every interleaving of the callers the pattern is constructed *)
(* at most once, nobody reads it before its construction has completed,    *)
(* its value never changes once stored, and every call returns what it     *)
(* returns when run alone.                                                 *)
(***************************************************************************)
C6_Safe ==
    /\ constructions <= 1
    /\ \A t \in Threads :
        /\ pc[t] = "is_match" => (once = "COMPLETE" /\ cell # <<>>)
        /\ Done(t) => result[t] = <<ValidateUsername(arg[t])>>

C6_OnceInitialised ==
    /\ []C6_Safe
    /\ [][cell # <<>> => cell' = cell]_vars

\* One caller has stored the pattern and not yet completed the Once while
\* another waits at the dereference.
C6_Witness ==
    \E t1, t2 \in Threads :
        /\ t1 # t2
        /\ pc[t1] = "publish"
        /\ pc[t2] = "deref"
        /\ once = "RUNNING"
        /\ constructions = 1

(***************************************************************************)
(* C7.  Two calls on the same characters return the same result, whatever  *)
(* form (borrowed or owned) each argument has.                             *)
(***************************************************************************)
C7_FormIndependent ==
    \A t1, t2 \in Threads :
        (Done(t1) /\ Done(t2) /\ arg[t1].s = arg[t2].s) => result[t1] = result[t2]

C7_Witness ==
    \E t1, t2 \in Threads :
        /\ Done(t1) /\ Done(t2)
        /\ arg[t1].s = arg[t2].s
        /\ val[t1].variant = "Borrowed" /\ val[t2].variant = "Owned"
        /\ Utf8Len(arg[t1].s) > CharCount(arg[t1].s)
        /\ result[t1] = result[t2]

(***************************************************************************)
(* C8.  Swapping the case of any ASCII letters of the input leaves the     *)
(* result unchanged, and case-insensitivity accepts no character beyond    *)
(* the ASCII letters of the documented set.  Stated as the claim; the      *)
(* second half fails on the Kelvin sign and the long s.                    *)
(***************************************************************************)
C8_AsciiCaseOnly ==
    \A t \in Threads :
        Done(t) =>
            /\ \A P \in SwapSets(arg[t].s) :
                  result[t] = <<ValidateUsername([arg[t] EXCEPT !.s = SwapAt(@, P)])>>
            /\ result[t] = <<TRUE>> => AllDocumented(arg[t].s)

\* The first half of C8 alone: swapping ASCII case never changes the result.
C8_SwapInvariant ==
    \A t \in Threads :
        Done(t) =>
            \A P \in SwapSets(arg[t].s) :
                result[t] = <<ValidateUsername([arg[t] EXCEPT !.s = SwapAt(@, P)])>>

(***************************************************************************)
(* C9.  The length check counts scalar values, not bytes: a call is        *)
(* rejected by the length check exactly when its input has more than 64    *)
(* scalar values, and an input of at most 64 scalar values gets the        *)
(* verdict of the pattern match, however many bytes it has.  This is what  *)
(* the call does when HasLen for Cow<str> counts characters; when it       *)
(* counts bytes, 33 two-byte characters are rejected by the length check   *)
(* (C9_InScalarsBuild, C9_InBytesBuild).                                    *)
(***************************************************************************)
C9_LengthInScalars ==
    \A t \in Threads :
        Done(t) =>
            /\ ret[t] = "length" <=> CharCount(arg[t].s) > MAX_LOCAL_LEN
            /\ CharCount(arg[t].s) <= MAX_LOCAL_LEN
                  => result[t] = <<IsMatch(Compiled, arg[t].s)>>

\* The claim, in the build whose HasLen for Cow<str> counts characters.
C9_InScalarsBuild == hasLenCow = "chars" => C9_LengthInScalars

\* The claim, in the build whose HasLen for Cow<str> counts bytes.
C9_InBytesBuild == hasLenCow = "bytes" => C9_LengthInScalars

C9_Witness ==
    /\ Done(MainThread)
    /\ CharCount(arg[MainThread].s) <= MAX_LOCAL_LEN
    /\ Utf8Len(arg[MainThread].s) > MAX_LOCAL_LEN
    /\ ret[MainThread] \in {"regex", "accept"}

(***************************************************************************)
(* C10.  The checks run in the order empty, length, pattern and stop at    *)
(* the first failure: a call on an empty or over-long input returns false  *)
(* from the check that rejects it, never reaches the dereference of the    *)
(* pattern or the match, and leaves the Once and the cell as they were.    *)
(***************************************************************************)
C10_Rejectable(t) == Len(arg[t].s) = 0 \/ CharCount(arg[t].s) > MAX_LOCAL_LEN

C10_NoMatch ==
    \A t \in Threads :
        (pc[t] # "idle" /\ C10_Rejectable(t)) =>
            /\ pc[t] \in {"is_empty", "length", "done"}
            /\ Len(arg[t].s) = 0 => pc[t] # "length"
            /\ Done(t) =>
                /\ result[t] = <<FALSE>>
                /\ ret[t] = IF Len(arg[t].s) = 0 THEN "empty" ELSE "length"
                /\ ~ranInit[t]

C10_ShortCircuit ==
    /\ []C10_NoMatch
    /\ [][/\ \A t \in Threads :
               pc'[t] # pc[t] => <<pc[t], pc'[t]>> \in Order
          /\ (pc[MainThread] # "idle" /\ C10_Rejectable(MainThread))
               => (once' = once /\ cell' = cell /\ constructions' = constructions)
         ]_vars

\* An over-long input has been rejected and the pattern was never built.
C10_Witness ==
    /\ Done(MainThread)
    /\ CharCount(arg[MainThread].s) > MAX_LOCAL_LEN
    /\ ret[MainThread] = "length"
    /\ once = "INCOMPLETE"
    /\ cell = <<>>

=============================================================================
